---- MODULE Spec2Model ----
(***************************************************************************)
(* A model of the transcode orchestration code of the video pipeline:     *)
(*   - the retry loops ClipProcessor.executeProcessing and                *)
(*     PlatformExporter.executeWithRetry with their activeProcesses sets, *)
(*     abortAllProcessing / abortAllExports and the ResourceMonitor poll  *)
(*     that feeds the 'warning' listener            (specification Spec)  *)
(*   - the worker pools batchProcess / batchConcatenate / batchExport     *)
(*                                              (specification SpecPool)  *)
(*   - PipelineManager.process, parallelValidation,                       *)
(*     createProcessingPipeline, executeStage and createWorkerTask        *)
(*                                              (specification SpecPipe)  *)
(***************************************************************************)
EXTENDS Integers, Sequences, FiniteSets, TLC

\* ------------------------------------------------------------------------
\* Bounds of the exploration
\* ------------------------------------------------------------------------
MaxAttempts == 3
MaxPolls == 2
MaxSamples == 11
MaxItems == 3
MaxTimedItems == 5
MaxDepth == 4
MaxStarts == 2
MaxPending == 2
MaxSlice == 3
MaxScan == 3
MaxLimit == 2
MaxCores == 2
MaxFiles == 3

\* ------------------------------------------------------------------------
\* JavaScript values that are not numbers.  Percentages and counters of the
\* program are naturals, so two negative integers stand for the two
\* non-numeric values the code can produce.
\* ------------------------------------------------------------------------
NaN == 0 - 1
Undefined == 0 - 2

IsNumber(v) == v >= 0

\* a > b of JavaScript: false as soon as one operand is NaN or undefined
JsGT(a, b) == IsNumber(a) /\ IsNumber(b) /\ a > b

\* a >= b of JavaScript
JsGE(a, b) == IsNumber(a) /\ IsNumber(b) /\ a >= b

\* a - b of JavaScript
JsSub(a, b) == IF IsNumber(a) /\ IsNumber(b) /\ a >= b THEN a - b ELSE NaN

\* (a / b) * 100 of JavaScript on naturals; 0/0 and undefined operands give NaN
JsPercent(a, b) == IF IsNumber(a) /\ IsNumber(b) /\ b > 0 THEN (a * 100) \div b ELSE NaN

RECURSIVE SumSeq(_)
SumSeq(s) == IF s = <<>> THEN 0 ELSE Head(s) + SumSeq(Tail(s))

VARIABLES
  retryAttempts,   \* config.processing.retry.attempts
  task,            \* one record per call of executeProcessing / executeWithRetry
  activeClip,      \* ClipProcessor.activeProcesses
  activeExport,    \* PlatformExporter.activeProcesses
  stats,           \* ResourceMonitor.stats
  warnings,        \* 'warning' events emitted by the last poll
  justPolled,      \* the last step, when it was a completed poll
  polls,           \* completed polls so far
  arrived,         \* every CPU sample so far, in arrival order
  timer,           \* ResourceMonitor.interval, and the calls of start() and stop()
  pending,         \* calls of updateStats() that have begun and not completed
  concurrency,     \* config.processing.concurrency
  kind,            \* the stage executor called: batchProcess, batchConcatenate, batchExport
  nItems,          \* length of the input list
  item,            \* per input item: pending, running, fulfilled, rejected
  pool,            \* the pool array / map of the executor
  nextItem,        \* position of the for loop in the input list
  bpc,             \* where the executor is: idle, race, all, returned, thrown
  awaited,         \* the promises handed to the pending Promise.race / Promise.all
  started,         \* the items in the order in which their tasks were started
  gateChecks,      \* calls of resourceMonitor.isSystemUnderLoad() by the executor
  cooldowns,       \* 5 s pauses taken by the executor
  clock,           \* the time in units of the task duration d, and each task's start time
  entry,           \* the method of PipelineManager that is called
  cores,           \* CPU_CORES
  nFiles,          \* files found by the scan / length of validFiles
  cleanupFlag,     \* config.processing.cleanup.tempFiles
  ppc,             \* where process() is
  heartbeat,       \* the interval timer of process() is active
  tempDir,         \* TEMP_DIR of fileUtils is set
  cleanupCalls,    \* calls of fileUtils.cleanupTempFiles() by process()
  removals,        \* fsExtra.remove(TEMP_DIR) issued
  vworker,         \* the validation workers
  render,          \* per platform, the call of FFmpegProcessor.processForPlatform
  cpc,             \* where createProcessingPipeline() is
  stage,           \* the stage the for loop of createProcessingPipeline is at
  worker,          \* the workers of the stages and the promises of createWorkerTask
  survivors,       \* per stage, the surviving items its workers reported
  cres,            \* how createProcessingPipeline() settled
  bar,             \* the values of the progress bars of process() and of the pipeline
  exitPath,        \* how the try block of process() was left
  reported,        \* what the caller of process() printed
  crashed,         \* a stage worker has ended with 'error' or a non-zero exit code
  ffm,             \* FFmpegProcessor: the call stack of executeCommand / retryProcessing
  vw,              \* validationWorker.js: the handler, its position and the messages posted
  vif              \* FileUtils.validateInputFiles: the per-file validations and the two lists

retryVars == <<retryAttempts, task, activeClip, activeExport>>
monVars == <<stats, warnings, justPolled, polls, arrived, timer, pending>>
poolVars == <<concurrency, kind, nItems, item, pool, nextItem, bpc, awaited,
              started, gateChecks, cooldowns, clock>>
pipeVars == <<entry, cores, nFiles, cleanupFlag, ppc, heartbeat, tempDir, cleanupCalls,
              removals, vworker, render, cpc, stage, worker, survivors, cres,
              bar, exitPath, reported, crashed>>
ffVars == <<ffm>>
utilVars == <<vw, vif>>
vars == <<retryVars, monVars, poolVars, pipeVars, ffVars, utilVars>>

\* the calls followed: one executeProcessing of the ClipProcessor singleton
\* and one executeWithRetry of the PlatformExporter singleton, each with its
\* own command
ClipTasks == {"clipCommand"}
ExportTasks == {"exportCommand"}
Tasks == ClipTasks \cup ExportTasks

\* an operation run by FileUtils.withFileRetry; its loop counts i from 0, the
\* attempt number is i + 1
FileTasks == {"fileOperation"}
RetryTasks == Tasks \cup FileTasks

NoPoll == [done |-> FALSE, disk |-> 0, registered |-> {}, aborted |-> FALSE]

\* a step of the retry executor or of a registry: no poll completes in it
NoPollStep ==
  /\ stats' = stats
  /\ warnings' = <<>>
  /\ justPolled' = NoPoll
  /\ polls' = polls
  /\ UNCHANGED <<arrived, timer, pending>>
  /\ UNCHANGED <<poolVars, pipeVars, ffVars, utilVars>>

\* ------------------------------------------------------------------------
\* Retry executor
\* ------------------------------------------------------------------------

\* a loop test that admits one attempt too many
LoopTestOffByOne(attempt, attempts) == attempt <= attempts + 1

\* the loop test of executeProcessing / executeWithRetry
LoopTest(attempt, attempts) == attempt <= attempts

\* a loop whose counter is not advanced
NextAttemptStuck(attempt) == attempt

\* attempt++ of the loop
NextAttempt(attempt) == attempt + 1

\* a catch block that never rethrows
IsLastAttemptNever(attempt, attempts) == FALSE

\* a catch block that takes the attempt after the last for the last
IsLastAttemptLate(attempt, attempts) == attempt = attempts + 1

\* the test of the catch block: rethrow on the last attempt
IsLastAttempt(attempt, attempts) == attempt = attempts

\* the state of a task before its retry loop is entered
NewTask ==
  [pc |-> "idle", attempt |-> 0, runs |-> 0, handlers |-> 0,
   log |-> <<>>, sigterm |-> FALSE, abortedAtRun |-> 0, settled |-> 0,
   outcome |-> "none", okAttempt |-> 0, error |-> 0, cleanups |-> 0,
   deletes |-> 0, delays |-> 0]

RetryInit ==
  /\ retryAttempts \in 0 .. MaxAttempts
  /\ task = [t \in Tasks |-> NewTask]
  /\ activeClip = {}
  /\ activeExport = {}

Register(t) ==
  /\ activeClip' = IF t \in ClipTasks THEN activeClip \cup {t} ELSE activeClip
  /\ activeExport' = IF t \in ExportTasks THEN activeExport \cup {t} ELSE activeExport

Unregister(t) ==
  /\ activeClip' = IF t \in ClipTasks THEN activeClip \ {t} ELSE activeClip
  /\ activeExport' = IF t \in ExportTasks THEN activeExport \ {t} ELSE activeExport

\* One pass of the loop head with the counter at a: either the body starts
\* (Progress.start, activeProcesses.add, a further pair of end/error
\* listeners on the same command, command.run()), or the loop is left and
\* the async function resolves with undefined.
LoopHead(t, a, waited) ==
  IF LoopTest(a, retryAttempts)
  THEN /\ task' = [task EXCEPT ![t].pc = "running", ![t].attempt = a,
                               ![t].runs = @ + 1, ![t].handlers = @ + 1,
                               ![t].sigterm = FALSE, ![t].delays = @ + waited]
       /\ Register(t)
  ELSE /\ task' = [task EXCEPT ![t].pc = "settled", ![t].attempt = a,
                               ![t].settled = @ + 1, ![t].outcome = "Undefined",
                               ![t].delays = @ + waited]
       /\ UNCHANGED <<activeClip, activeExport>>

\* executeProcessing(command, ...) / executeWithRetry(command, ...) is called
Start(t) ==
  /\ task[t].pc = "idle"
  /\ LoopHead(t, 1, 0)
  /\ UNCHANGED retryAttempts
  /\ NoPollStep

\* cleanupProcessing runs once per installed listener of the event; with
\* cleanup.tempFiles set each call issues safeDelete(command._inputs[0]).
\* The exporter's listeners delete the command from the set inline.
CleanupCalls(t) == IF t \in ClipTasks THEN task[t].handlers ELSE 0

\* the engine emits 'end' for the running command
EngineEnd(t) ==
  /\ task[t].pc = "running"
  /\ ~task[t].sigterm
  /\ task' = [task EXCEPT ![t].pc = "settled", ![t].settled = @ + 1,
                          ![t].outcome = "Succeeded",
                          ![t].okAttempt = task[t].attempt,
                          ![t].log = Append(@, "ok"),
                          ![t].cleanups = @ + CleanupCalls(t),
                          ![t].deletes = @ + CleanupCalls(t)]
  /\ Unregister(t)
  /\ UNCHANGED retryAttempts
  /\ NoPollStep

\* the engine emits 'error' for the running command; a command that was
\* sent SIGTERM ends with the error "ffmpeg was killed with signal SIGTERM"
EngineError(t) ==
  /\ task[t].pc = "running"
  /\ LET how == IF task[t].sigterm THEN "killed" ELSE "fail"
         common == [task EXCEPT ![t].log = Append(@, how),
                                ![t].cleanups = @ + CleanupCalls(t),
                                ![t].deletes = @ + CleanupCalls(t)]
     IN IF IsLastAttempt(task[t].attempt, retryAttempts)
        THEN task' = [common EXCEPT ![t].pc = "settled", ![t].settled = @ + 1,
                                    ![t].outcome = "Failed",
                                    ![t].error = task[t].runs]
        ELSE task' = [common EXCEPT ![t].pc = "delay"]
  /\ Unregister(t)
  /\ UNCHANGED retryAttempts
  /\ NoPollStep

\* setTimeout(resolve, config.processing.retry.delay) fires; attempt++
DelayElapsed(t) ==
  /\ task[t].pc = "delay"
  /\ LoopHead(t, NextAttempt(task[t].attempt), 1)
  /\ UNCHANGED retryAttempts
  /\ NoPollStep

\* the members of the object Progress exported by progressBar.js
ProgressMembers == {"start", "update", "complete", "log"}

\* One pass of the loop head in which the executor of the promise throws
\* while the command is started: activeProcesses.add(command) has been done,
\* the argument Progress.ffmpegHandler(taskId) of the first .on() throws
\* before any listener is installed and before run().  The promise rejects
\* and the catch block rethrows on the last attempt or waits retry.delay;
\* nothing takes the command out of the set.
CommandThrows(t) ==
  \* Progress.ffmpegHandler(taskId): a member that does not exist is called
  \* as undefined and throws a TypeError
  /\ "ffmpegHandler" \notin ProgressMembers
  /\ task[t].pc \in {"idle", "delay"}
  /\ LET a == IF task[t].pc = "idle" THEN 1 ELSE NextAttempt(task[t].attempt)
         waited == IF task[t].pc = "idle" THEN 0 ELSE 1
     IN IF LoopTest(a, retryAttempts)
        THEN /\ task' = [task EXCEPT
                  ![t].pc = IF IsLastAttempt(a, retryAttempts) THEN "settled" ELSE "delay",
                  ![t].settled = IF IsLastAttempt(a, retryAttempts) THEN @ + 1 ELSE @,
                  ![t].outcome = IF IsLastAttempt(a, retryAttempts) THEN "Failed" ELSE @,
                  ![t].error = IF IsLastAttempt(a, retryAttempts) THEN task[t].runs + 1 ELSE @,
                  ![t].attempt = a, ![t].runs = @ + 1, ![t].sigterm = FALSE,
                  ![t].log = Append(@, "threw"), ![t].delays = @ + waited]
             /\ Register(t)
        ELSE LoopHead(t, a, waited)
  /\ UNCHANGED retryAttempts
  /\ NoPollStep

\* a kill that reaches every command, registered or not
KillEveryTask(set) == [t \in DOMAIN task |->
  [task[t] EXCEPT !.sigterm = TRUE, !.abortedAtRun = task[t].runs]]

\* process.kill('SIGTERM') for every member, then the set is cleared
KillAll(set) == [t \in DOMAIN task |->
  IF t \in set
  THEN [task[t] EXCEPT !.sigterm = TRUE, !.abortedAtRun = task[t].runs]
  ELSE task[t]]

abortAllExports ==
  /\ task' = KillAll(activeExport)
  /\ activeExport' = {}
  /\ UNCHANGED <<activeClip, retryAttempts>>

abortAllProcessing ==
  /\ task' = KillAll(activeClip)
  /\ activeClip' = {}
  /\ UNCHANGED <<activeExport, retryAttempts>>

\* ------------------------------------------------------------------------
\* Resource monitor
\* ------------------------------------------------------------------------
HistoryLimit == 10
CpuAlert == 85
MemoryAlert == 90
DiskAlert == 90
DiskCritical == 95
MemTotal == 100
DiskTotal == 100

\* what one poll can read from the machine, in percent
CpuSamples == {50, 90}
MemFreeSamples == {60, 5}
DiskUsedSamples == {50, 95, 97}

\* the timer of a monitor that was constructed and not started
NoTimer == [interval |-> FALSE, starts |-> 0, stops |-> 0]

\* a start() that sets a timer whether or not one is active
startAlways(tm) == [tm EXCEPT !.interval = TRUE, !.starts = @ + 1]

\* start(configInterval): setInterval unless a timer is active
start(tm) ==
  IF ~tm.interval
  THEN [tm EXCEPT !.interval = TRUE, !.starts = @ + 1]
  ELSE tm

\* stop(): clearInterval when a timer is active
stop(tm) ==
  IF tm.interval
  THEN [tm EXCEPT !.interval = FALSE, !.stops = @ + 1]
  ELSE tm

\* ResourceMonitor's constructor, and start() at the end of the module
MonitorInit ==
  /\ stats \in {[cpu |-> [current |-> 0, average |-> [sum |-> 0, n |-> 1], history |-> <<>>],
                 memory |-> [total |-> MemTotal, free |-> f, used |-> MemTotal - f],
                 disk |-> [free |-> 0, total |-> 0, used |-> 0]] : f \in MemFreeSamples}
  /\ warnings = <<>>
  /\ justPolled = NoPoll
  /\ polls = 0
  /\ arrived = <<>>
  /\ timer = start(NoTimer)
  /\ pending = 0

\* a history that is never trimmed
updateCpuStatsNoShift(cpu, currentLoad) ==
  LET pushed == Append(cpu.history, currentLoad)
  IN [current |-> currentLoad,
      average |-> [sum |-> SumSeq(pushed), n |-> Len(pushed)],
      history |-> pushed]

\* updateCpuStats(currentLoad); the average is kept as the pair (sum, n)
updateCpuStats(cpu, currentLoad) ==
  LET pushed == Append(cpu.history, currentLoad)
      kept == IF Len(pushed) > HistoryLimit THEN Tail(pushed) ELSE pushed
  IN [current |-> currentLoad,
      average |-> [sum |-> SumSeq(kept), n |-> Len(kept)],
      history |-> kept]

\* FileUtils.checkDiskSpace(requiredBytes): a boolean, free >= requiredBytes
checkDiskSpace(free, requiredBytes) == free >= requiredBytes

\* diskStats.free / diskStats.total, read from the value checkDiskSpace
\* returned: a property of a boolean is undefined
PropertyOf(diskStats, name) == IF diskStats \in BOOLEAN THEN Undefined ELSE NaN

\* the body of updateStats up to the call of checkThresholds
updateStats(st, cpuLoad, memFree, diskUsed) ==
  LET diskStats == checkDiskSpace(DiskTotal - diskUsed, 0)
  IN [cpu |-> updateCpuStats(st.cpu, cpuLoad),
      memory |-> [total |-> st.memory.total, free |-> memFree,
                  used |-> st.memory.total - memFree],
      disk |-> [free |-> PropertyOf(diskStats, "free"),
                total |-> PropertyOf(diskStats, "total"),
                used |-> JsSub(PropertyOf(diskStats, "total"),
                               PropertyOf(diskStats, "free"))]]

\* stats.cpu.average > threshold, on the pair (sum, n)
AverageGT(avg, threshold) == avg.sum > threshold * avg.n

\* checkThresholds(): the events emitted, in the order of emission
checkThresholds(st) ==
  LET memoryUsage == JsPercent(st.memory.used, st.memory.total)
      diskUsage == JsPercent(st.disk.used, st.disk.total)
  IN (IF AverageGT(st.cpu.average, CpuAlert)
      THEN <<[type |-> "cpu", value |-> st.cpu.average.sum \div st.cpu.average.n,
              threshold |-> CpuAlert]>>
      ELSE <<>>)
     \o (IF JsGT(memoryUsage, MemoryAlert)
         THEN <<[type |-> "memory", value |-> memoryUsage, threshold |-> MemoryAlert]>>
         ELSE <<>>)
     \o (IF JsGT(diskUsage, DiskAlert)
         THEN <<[type |-> "disk", value |-> diskUsage, threshold |-> DiskAlert]>>
         ELSE <<>>)

LoadCpu == 70
LoadMemory == 80
LoadDisk == 90

\* getCurrentStatus(): the statistics with the usage percentages added
getCurrentStatus(st) ==
  [cpu |-> st.cpu,
   memory |-> [usage |-> JsPercent(st.memory.used, st.memory.total)],
   disk |-> [usage |-> JsPercent(st.disk.used, st.disk.total)]]

\* isSystemUnderLoad(): the three flags
isSystemUnderLoad(st) ==
  LET status == getCurrentStatus(st)
  IN [cpu |-> AverageGT(status.cpu.average, LoadCpu),
      memory |-> JsGT(status.memory.usage, LoadMemory),
      disk |-> JsGT(status.disk.usage, LoadDisk)]

\* a listener that aborts on every warning
OnAnyWarningAborts(data) == data.type \in {"cpu", "memory", "disk"}

\* the listener resourceMonitor.on('warning', ...): does it call abortAllExports?
OnWarningAborts(data) == data.type = "disk" /\ JsGT(data.value, DiskCritical)

\* The completion of one updateStats(): the statistics are written,
\* checkThresholds runs, and the 'warning' listener runs synchronously for
\* every emitted event.
PollBody(cpuLoad, memFree, diskUsed) ==
  LET st == updateStats(stats, cpuLoad, memFree, diskUsed)
      evs == checkThresholds(st)
      aborts == \E i \in 1 .. Len(evs) : OnWarningAborts(evs[i])
  IN /\ polls' = polls + 1
     /\ stats' = st
     /\ warnings' = evs
     /\ arrived' = Append(arrived, cpuLoad)
     /\ timer' = timer
     /\ justPolled' = [done |-> TRUE, disk |-> diskUsed, registered |-> activeExport,
                       aborted |-> aborts]
     /\ UNCHANGED <<poolVars, pipeVars, ffVars, utilVars>>
     /\ IF aborts
        THEN abortAllExports
        ELSE UNCHANGED retryVars

\* One completed poll of a started monitor, begun and completed in one step
PollStep(cpuLoad, memFree, diskUsed) ==
  /\ timer.interval
  /\ pending' = pending
  /\ PollBody(cpuLoad, memFree, diskUsed)

\* a poll while the retry executors are followed
Poll(cpuLoad, memFree, diskUsed) ==
  /\ polls < MaxPolls
  /\ PollStep(cpuLoad, memFree, diskUsed)

\* a poll while the monitor alone is followed
MonitorPoll(cpuLoad, memFree, diskUsed) ==
  /\ polls < MaxSamples
  /\ PollStep(cpuLoad, memFree, diskUsed)

\* The life cycle of a monitor: start(), stop(), the timer, and calls of
\* updateStats() that take time (getCpuLoad waits one second, the disk query
\* is awaited)
LifecycleInit ==
  /\ stats \in {[cpu |-> [current |-> 0, average |-> [sum |-> 0, n |-> 1], history |-> <<>>],
                 memory |-> [total |-> MemTotal, free |-> f, used |-> MemTotal - f],
                 disk |-> [free |-> 0, total |-> 0, used |-> 0]] : f \in MemFreeSamples}
  /\ warnings = <<>>
  /\ justPolled = NoPoll
  /\ polls = 0
  /\ arrived = <<>>
  /\ timer = NoTimer
  /\ pending = 0

\* a step of the life cycle in which no updateStats() completes
NoCompletion ==
  /\ stats' = stats
  /\ warnings' = <<>>
  /\ justPolled' = NoPoll
  /\ UNCHANGED <<polls, arrived>>
  /\ UNCHANGED <<retryVars, poolVars, pipeVars, ffVars, utilVars>>

\* resourceMonitor.start(configInterval): with no timer active it sets one
\* and calls updateStats() at once
CallStart ==
  /\ timer.starts < MaxStarts
  /\ pending < MaxPending
  /\ timer' = start(timer)
  /\ pending' = IF ~timer.interval THEN pending + 1 ELSE pending
  /\ NoCompletion

\* resourceMonitor.stop()
CallStop ==
  /\ timer' = stop(timer)
  /\ pending' = pending
  /\ NoCompletion

\* the interval timer fires: updateStats() begins
TimerFires ==
  /\ timer.interval
  /\ pending < MaxPending
  /\ pending' = pending + 1
  /\ timer' = timer
  /\ NoCompletion

\* an updateStats() that had begun completes
UpdateCompletes(cpuLoad, memFree, diskUsed) ==
  /\ pending > 0
  /\ polls < MaxPolls
  /\ pending' = pending - 1
  /\ PollBody(cpuLoad, memFree, diskUsed)

\* ------------------------------------------------------------------------
\* Stage executors: ClipProcessor.batchProcess, Concatenator.batchConcatenate,
\* PlatformExporter.batchExport
\* ------------------------------------------------------------------------
Kinds == {"batchProcess", "batchConcatenate", "batchExport"}
Items == 1 .. MaxItems

\* config.processing.concurrency.<name>: the object has the two properties
\* clipProcessing and platformExport; any other property reads undefined
ConcurrencyProperty(conc, name) ==
  IF name = "clipProcessing" THEN conc.clipProcessing
  ELSE IF name = "platformExport" THEN conc.platformExport
  ELSE Undefined

\* the property each executor compares its pool size with
LimitName(k) == IF k = "batchExport" THEN "platformExport" ELSE "clip"

\* a while test that always holds
PoolFullAlways(size, limit) == size >= 0

\* a while test that lets one task more in
PoolFullLate(size, limit) == JsGE(size, limit + 1)

\* the test of the while loop: pool.length >= limit
PoolFull(size, limit) == JsGE(size, limit)

\* the clock at the call of an executor with up to n items
NoClock(n) == [now |-> 0, startAt |-> [i \in 1 .. n |-> 0]]

\* the variables of the executors when no executor is followed
PoolIdle ==
  /\ concurrency = [clipProcessing |-> 1, platformExport |-> 1]
  /\ kind = "none"
  /\ nItems = 0
  /\ item = [i \in Items |-> "pending"]
  /\ pool = {}
  /\ nextItem = 1
  /\ bpc = "idle"
  /\ awaited = {}
  /\ started = <<>>
  /\ gateChecks = 0
  /\ cooldowns = 0
  /\ clock = NoClock(MaxItems)

PoolInit ==
  /\ concurrency \in [clipProcessing : 1 .. MaxLimit, platformExport : 1 .. MaxLimit]
  /\ kind \in Kinds
  /\ nItems \in 0 .. MaxItems
  /\ item = [i \in Items |-> "pending"]
  /\ pool = {}
  /\ nextItem = 1
  /\ bpc = "idle"
  /\ awaited = {}
  /\ started = <<>>
  /\ gateChecks = 0
  /\ cooldowns = 0
  /\ clock = NoClock(MaxItems)

\* a for...of loop that visits the list from its end
IterationItemReversed(pos) == nItems + 1 - pos

\* the item the for...of loop visits at its pos-th iteration
IterationItem(pos) == pos

\* The synchronous part of the for loop from iteration nx with pool pl and
\* start order so: items are started and pushed until the while test holds
\* (the executor then awaits Promise.race of the pool) or the list is
\* exhausted (it then returns Promise.all of the pool).
RECURSIVE RunLoop(_, _, _, _)
RunLoop(nx, pl, so, limit) ==
  IF nx > nItems THEN [next |-> nx, pool |-> pl, started |-> so, pc |-> "all"]
  ELSE IF PoolFull(Cardinality(pl), limit)
  THEN [next |-> nx, pool |-> pl, started |-> so, pc |-> "race"]
  ELSE RunLoop(nx + 1, pl \cup {IterationItem(nx)}, Append(so, IterationItem(nx)), limit)

\* the executor runs from iteration nx until its next await; it holds the
\* item states before the run
Resume(nx, pl, it) ==
  LET r == RunLoop(nx, pl, started, ConcurrencyProperty(concurrency, LimitName(kind)))
  IN /\ nextItem' = r.next
     /\ pool' = r.pool
     /\ started' = r.started
     /\ item' = [i \in DOMAIN it |-> IF i \in r.pool \ pl THEN "running" ELSE it[i]]
     /\ awaited' = r.pool
     /\ bpc' = IF r.pc = "all" /\ r.pool = {} THEN "returned" ELSE r.pc

\* batchProcess(clips) / batchConcatenate(clipsGroups) / batchExport(videoPaths)
CallBatchStep ==
  /\ bpc = "idle"
  /\ kind \in Kinds
  /\ Resume(1, {}, item)
  /\ UNCHANGED <<gateChecks, cooldowns>>
  /\ UNCHANGED <<concurrency, kind, nItems, retryVars, monVars, pipeVars, ffVars, utilVars>>

\* the call while time is not followed
CallBatch == CallBatchStep /\ UNCHANGED clock

\* The part of batchProcess's while body after Promise.race: when more than
\* 30 s have passed since the last check (late), isSystemUnderLoad() is
\* called, and with the cpu or the memory flag set the executor pauses 5 s,
\* once, before it tests the pool again.  The pause is taken within the step.
GateAfterRace(late) ==
  IF kind = "batchProcess" /\ late
  THEN /\ gateChecks' = gateChecks + 1
       /\ cooldowns' = IF isSystemUnderLoad(stats).cpu \/ isSystemUnderLoad(stats).memory
                       THEN cooldowns + 1 ELSE cooldowns
  ELSE UNCHANGED <<gateChecks, cooldowns>>

\* The task of item i settles with outcome o.  Its finally callback takes it
\* out of the pool; then the executor, if it awaits a race or an all that
\* holds the task, goes on: a rejection is thrown out of the executor, a
\* fulfilment resumes the loop (race) or completes the all once every
\* awaited task is fulfilled.
SettleStep(i, o) ==
  /\ item[i] = "running"
  /\ LET it == [item EXCEPT ![i] = o]
         pl == pool \ {i}
     IN IF bpc \in {"race", "all"} /\ i \in awaited /\ o = "rejected"
        THEN /\ bpc' = "thrown"
             /\ item' = it
             /\ pool' = pl
             /\ UNCHANGED <<nextItem, awaited, started, gateChecks, cooldowns>>
        ELSE IF bpc = "race" /\ i \in awaited
        THEN /\ \E late \in BOOLEAN : GateAfterRace(late)
             /\ Resume(nextItem, pl, it)
        ELSE /\ item' = it
             /\ pool' = pl
             /\ bpc' = IF bpc = "all" /\ \A k \in awaited : it[k] = "fulfilled"
                       THEN "returned" ELSE bpc
             /\ UNCHANGED <<nextItem, awaited, started, gateChecks, cooldowns>>
  /\ UNCHANGED <<concurrency, kind, nItems, retryVars, monVars, pipeVars, ffVars, utilVars>>

\* the settlement while time is not followed
TaskSettles(i, o) == SettleStep(i, o) /\ UNCHANGED clock

\* Every task takes the same time d and none fails; time is counted in units
\* of d.  The tasks started by a step start at the time of the step.
StartedNow ==
  clock' = [clock EXCEPT !.startAt = [i \in DOMAIN item |->
                                        IF i \in pool' \ pool THEN clock.now ELSE @[i]]]

Due(i) == item[i] = "running" /\ clock.startAt[i] + 1 = clock.now

TimedCall == CallBatchStep /\ StartedNow

TimedSettle(i) == Due(i) /\ SettleStep(i, "fulfilled") /\ StartedNow

\* time passes while tasks run and none of them is due
Tick ==
  /\ \E i \in DOMAIN item : item[i] = "running"
  /\ \A i \in DOMAIN item : ~Due(i)
  /\ clock' = [clock EXCEPT !.now = @ + 1]
  /\ UNCHANGED <<concurrency, kind, nItems, item, pool, nextItem, bpc, awaited,
                 started, gateChecks, cooldowns>>
  /\ UNCHANGED <<retryVars, monVars, pipeVars, ffVars, utilVars>>

TimedInit ==
  /\ concurrency \in [clipProcessing : 1 .. MaxLimit, platformExport : 1 .. MaxLimit]
  /\ kind \in Kinds
  /\ nItems \in 0 .. MaxTimedItems
  /\ item = [i \in 1 .. MaxTimedItems |-> "pending"]
  /\ pool = {}
  /\ nextItem = 1
  /\ bpc = "idle"
  /\ awaited = {}
  /\ started = <<>>
  /\ gateChecks = 0
  /\ cooldowns = 0
  /\ clock = NoClock(MaxTimedItems)

PoolNext ==
  \/ CallBatch
  \/ \E i \in Items : TaskSettles(i, "fulfilled")
  \/ \E i \in Items : TaskSettles(i, "rejected")

RetryIdle ==
  /\ retryAttempts = 0
  /\ task = [t \in Tasks |-> NewTask]
  /\ activeClip = {}
  /\ activeExport = {}

\* the monitor while no poll is followed: main.js does not import it, and a
\* process that also loads concatenation.js has it started at module load
MonitorIdle ==
  /\ stats = [cpu |-> [current |-> 0, average |-> [sum |-> 0, n |-> 1], history |-> <<>>],
              memory |-> [total |-> MemTotal, free |-> MemTotal, used |-> 0],
              disk |-> [free |-> 0, total |-> 0, used |-> 0]]
  /\ warnings = <<>>
  /\ justPolled = NoPoll
  /\ polls = 0
  /\ arrived = <<>>
  /\ timer \in {NoTimer, start(NoTimer)}
  /\ pending = 0


\* ------------------------------------------------------------------------
\* PipelineManager
\* ------------------------------------------------------------------------
NumStages == 5
Stages == 1 .. NumStages
Slots == 1 .. MaxCores
Platforms == {"youtube", "tiktok"}

Max(a, b) == IF a >= b THEN a ELSE b
Min(a, b) == IF a <= b THEN a ELSE b

\* a chunk size that is rounded down
Floor(n, c) == n \div c

\* Math.ceil(n / c)
Ceil(n, c) == (n + c - 1) \div c

\* chunkSize of executeStage
StageChunkSize(n, c) == Max(1, Ceil(n, c))

\* files.slice(lo, hi).length on a list of n files
SliceLen(n, lo, hi) == Min(n, hi) - Min(n, lo)

\* the slots i (1-based) of executeStage whose chunk is not empty; one
\* worker task is created for each
StageSlots(n, c) ==
  {i \in 1 .. c : SliceLen(n, (i - 1) * StageChunkSize(n, c), i * StageChunkSize(n, c)) > 0}

\* files.slice(lo, hi) on the list of the files 1 .. n (positions from 0)
Slice(n, lo, hi) == {j \in 1 .. n : lo < j /\ j <= hi}

\* the slice handed to validation worker k of c by parallelValidation
ValidationSlice(n, c, k) == Slice(n, (k - 1) * Ceil(n, c), k * Ceil(n, c))

\* the chunk of slot k of c in executeStage
StageSlice(n, c, k) ==
  Slice(n, (k - 1) * StageChunkSize(n, c), k * StageChunkSize(n, c))

\* getNextStageFiles(stageName): a list of one file, whatever the stage did
NextStageFileCount(s) == 1

NoWorker == [st |-> "none", promise |-> "none"]
\* the variables of the pipeline when no method of PipelineManager is followed
PipeIdle ==
  /\ entry = "none"
  /\ cores = 1
  /\ nFiles = 0
  /\ cleanupFlag = TRUE
  /\ ppc = "idle"
  /\ heartbeat = FALSE
  /\ tempDir = FALSE
  /\ cleanupCalls = 0
  /\ removals = 0
  /\ vworker = [k \in Slots |-> "none"]
  /\ render = [p \in Platforms |-> "idle"]
  /\ cpc = "idle"
  /\ stage = 0
  /\ worker = [s \in Stages |-> [k \in Slots |-> NoWorker]]
  /\ survivors = [s \in Stages |-> 0]
  /\ cres = "none"
  /\ bar = [proc |-> 0, pipe |-> 0]
  /\ exitPath = "none"
  /\ reported = "none"
  /\ crashed = FALSE

PipeInit ==
  /\ entry \in {"process", "createProcessingPipeline"}
  /\ cores \in 1 .. MaxCores
  /\ nFiles \in 0 .. MaxFiles
  /\ cleanupFlag \in BOOLEAN
  /\ ppc = "idle"
  /\ heartbeat = FALSE
  /\ tempDir = FALSE
  /\ cleanupCalls = 0
  /\ removals = 0
  /\ vworker = [k \in Slots |-> "none"]
  /\ render = [p \in Platforms |-> "idle"]
  /\ cpc = "idle"
  /\ stage = 0
  /\ worker = [s \in Stages |-> [k \in Slots |-> NoWorker]]
  /\ survivors = [s \in Stages |-> 0]
  /\ cres = "none"
  /\ bar = [proc |-> 0, pipe |-> 0]
  /\ exitPath = "none"
  /\ reported = "none"
  /\ crashed = FALSE

procVars == <<ppc, heartbeat, tempDir, cleanupCalls, removals, vworker, render, exitPath, reported>>
stageVars == <<cpc, stage, worker, survivors, cres, crashed>>
pipeConfig == <<entry, cores, nFiles, cleanupFlag>>

\* ---- ProgressBar --------------------------------------------------------

BarFull == 100

\* ProgressBar.update(taskId, data) on a bar showing value: nothing is done
\* when the last update is less than 66 ms old (throttled); otherwise the
\* bar takes data.value if data has one.  data.increment is not read.
BarUpdate(value, data, throttled) ==
  IF throttled THEN value
  ELSE IF "value" \in DOMAIN data THEN data.value
  ELSE value

\* ProgressBar.complete(taskId): task.bar.update(100)
BarComplete(value) == BarFull

\* the weights of the stages of createProcessingPipeline
StageWeight == <<25, 20, 15, 20, 20>>

\* ---- process() -----------------------------------------------------------

\* process() is called: setInterval, Progress.start, fileUtils.initialize()
\* sets TEMP_DIR and awaits ensureDir
CallProcess ==
  /\ entry = "process"
  /\ ppc = "idle"
  /\ ppc' = "initialize"
  /\ heartbeat' = TRUE
  /\ tempDir' = TRUE
  /\ UNCHANGED <<cleanupCalls, removals, vworker, render, exitPath, reported, bar>>
  /\ UNCHANGED <<stageVars, pipeConfig, retryVars, monVars, poolVars, ffVars, utilVars>>

\* a finally block that is skipped when the try block throws
RunsFinallyUnlessThrown(p) == p # "throw"

\* does the finally block of process() run when the try block is left by p?
\* p is "return" (no valid input), "throw" (caught error) or "end"
RunsFinally(p) == TRUE

\* the try block of process() is left by p: the catch block logs a thrown
\* error, and the finally block calls fileUtils.cleanupTempFiles()
LeaveTry(p) ==
  /\ exitPath' = p
  /\ IF RunsFinally(p)
     THEN /\ ppc' = "cleanup"
          /\ cleanupCalls' = cleanupCalls + 1
     ELSE /\ ppc' = "done"
          /\ cleanupCalls' = cleanupCalls

\* ensureDir settles: on success parallelValidation is entered and awaits
\* the scan; on failure the error is caught by process()
InitializeSettles(ok) ==
  /\ ppc = "initialize"
  /\ IF ok
     THEN /\ ppc' = "scan"
          /\ UNCHANGED <<cleanupCalls, exitPath>>
          /\ \E throttled \in BOOLEAN :
               bar' = [bar EXCEPT !.proc = BarUpdate(@, [value |-> 10], throttled)]
     ELSE LeaveTry("throw") /\ bar' = bar
  /\ UNCHANGED <<heartbeat, tempDir, removals, vworker, render, reported>>
  /\ UNCHANGED <<stageVars, pipeConfig, retryVars, monVars, poolVars, ffVars, utilVars>>

\* scanInputDirectory() settles with nFiles files: without files
\* parallelValidation returns [] and process() returns; otherwise one
\* validation worker per core is created and Promise.all(workers) awaited
ScanSettles ==
  /\ ppc = "scan"
  /\ IF nFiles = 0
     THEN /\ LeaveTry("return")
          /\ vworker' = vworker
          /\ \E throttled \in BOOLEAN :
               bar' = [bar EXCEPT !.proc = BarUpdate(@, [value |-> 30], throttled)]
     ELSE /\ ppc' = "validating"
          /\ UNCHANGED <<cleanupCalls, exitPath, bar>>
          /\ vworker' = [k \in Slots |-> IF k <= cores THEN "alive" ELSE "none"]
  /\ UNCHANGED <<heartbeat, tempDir, removals, render, reported>>
  /\ UNCHANGED <<stageVars, pipeConfig, retryVars, monVars, poolVars, ffVars, utilVars>>

\* A validation worker ends: 'error', or 'exit' with a code.  The promise of
\* a worker has no path to resolve; 'error' and a non-zero exit code reject
\* it, which rejects Promise.all(workers): parallelValidation rethrows and
\* process() catches.  An exit with code 0 leaves the promise pending.
ValidationWorkerEnds(k, how) ==
  /\ vworker[k] = "alive"
  /\ vworker' = [vworker EXCEPT ![k] = IF how = "exit0" THEN "exited" ELSE "crashed"]
  /\ IF how # "exit0" /\ ppc = "validating"
     THEN LeaveTry("throw")
     ELSE UNCHANGED <<ppc, cleanupCalls, exitPath>>
  /\ UNCHANGED <<heartbeat, tempDir, removals, render, reported, bar>>
  /\ UNCHANGED <<stageVars, pipeConfig, retryVars, monVars, poolVars, ffVars, utilVars>>

\* FileUtils.cleanupTempFiles(): does it remove TEMP_DIR?
CleanupRemoves(flag, dir) == flag /\ dir

\* what the caller of process() prints: .then(success) when the promise of
\* process() is fulfilled, .catch(error) when it is rejected
ReportOf(settlement) == IF settlement = "fulfilled" THEN "success" ELSE "error"

\* cleanupTempFiles() settles, the bar of process() is completed and
\* process() returns: its promise is fulfilled whatever path was taken
CleanupSettles ==
  /\ ppc = "cleanup"
  /\ ppc' = "done"
  /\ removals' = IF CleanupRemoves(cleanupFlag, tempDir) THEN removals + 1 ELSE removals
  /\ bar' = [bar EXCEPT !.proc = BarComplete(@)]
  /\ reported' = ReportOf("fulfilled")
  /\ UNCHANGED <<heartbeat, tempDir, cleanupCalls, vworker, render, exitPath>>
  /\ UNCHANGED <<stageVars, pipeConfig, retryVars, monVars, poolVars, ffVars, utilVars>>

\* the static methods of the class FileUtils; every other method is an
\* instance method, and FileUtils.<name> is undefined for it
IsStaticOfFileUtils(name) == name = "cleanupTempFiles"

\* handleProcessEnd(outputPath, platform), the 'end' listener of the command
\* of processForPlatform: calls FileUtils.cleanupTempFiles() when the flag is
\* set; n is the number of removals so far
handleProcessEnd(n) ==
  IF cleanupFlag /\ CleanupRemoves(cleanupFlag, tempDir) THEN n + 1 ELSE n

\* ffmpegProcessor.processForPlatform(inputPaths, p) is called in the process
\* that runs process().  It calls FileUtils.generateOutputFilename, which is
\* an instance method: the call throws a TypeError and the promise is
\* rejected before the command and its 'end' listener exist.  Were the method
\* static, the command would run and its 'end' would call handleProcessEnd.
ProcessForPlatform(p) ==
  /\ entry = "process"
  /\ render[p] = "idle"
  /\ IF IsStaticOfFileUtils("generateOutputFilename")
     THEN /\ render' = [render EXCEPT ![p] = "ended"]
          /\ removals' = handleProcessEnd(removals)
     ELSE /\ render' = [render EXCEPT ![p] = "rejected"]
          /\ removals' = removals
  /\ UNCHANGED <<ppc, heartbeat, tempDir, cleanupCalls, vworker, exitPath, reported, bar>>
  /\ UNCHANGED <<stageVars, pipeConfig, retryVars, monVars, poolVars, ffVars, utilVars>>

\* ---- createProcessingPipeline() -----------------------------------------

\* is the identifier heartbeat bound in the function fn?  It is a const of
\* process(); the finally block of createProcessingPipeline reads it unbound
\* and throws a ReferenceError
HeartbeatBound(fn) == fn = "process"

\* the finally block of createProcessingPipeline, entered with the bars b:
\* clearInterval(heartbeat) throws, and Progress.complete(pipelineProgressId)
\* after it is not reached
PipelineFinally(b) ==
  /\ cpc' = "done"
  /\ cres' = IF HeartbeatBound("createProcessingPipeline") THEN "pending" ELSE "rejected"
  /\ bar' = IF HeartbeatBound("createProcessingPipeline")
            THEN [b EXCEPT !.pipe = BarComplete(@)]
            ELSE b

\* executeStage(files, stage s) with n files: one worker task per non-empty
\* chunk; ws is the worker table before
WithStageWorkers(ws, s, n) ==
  [ws EXCEPT ![s] = [k \in Slots |-> IF k \in StageSlots(n, cores)
                                     THEN [st |-> "running", promise |-> "pending"]
                                     ELSE NoWorker]]

\* Stage s has been awaited successfully: Progress.update, getNextStageFiles,
\* and either the next stage is started or the loop ends.
AfterStage(ws, s) ==
  \E throttled \in BOOLEAN :
    LET b == [bar EXCEPT !.pipe = BarUpdate(@, [increment |-> StageWeight[s]], throttled)]
    IN IF s < NumStages
       THEN /\ stage' = s + 1
            /\ worker' = WithStageWorkers(ws, s + 1, NextStageFileCount(s))
            /\ cpc' = "stageWait"
            /\ cres' = cres
            /\ bar' = b
       ELSE /\ stage' = s
            /\ worker' = ws
            /\ PipelineFinally(b)

\* createProcessingPipeline(validFiles) is called with nFiles files.  A stage
\* without files creates no worker task and Promise.all([]) is fulfilled.
CallPipeline ==
  /\ entry = "createProcessingPipeline"
  /\ cpc = "idle"
  /\ IF StageSlots(nFiles, cores) = {}
     THEN AfterStage(worker, 1)
     ELSE /\ stage' = 1
          /\ worker' = WithStageWorkers(worker, 1, nFiles)
          /\ cpc' = "stageWait"
          /\ cres' = cres
          /\ bar' = bar
  /\ UNCHANGED <<survivors, crashed>>
  /\ UNCHANGED <<procVars, pipeConfig, retryVars, monVars, poolVars, ffVars, utilVars>>

AllResolved(ws, s) == \A k \in Slots : ws[s][k].promise \in {"none", "resolved"}

\* The worker in slot k of stage s posts a message reporting ok surviving
\* items.  The first message resolves the promise of createWorkerTask; the
\* message itself is handed to nobody.  When the promise belongs to the stage
\* being awaited and every promise of the stage is resolved, Promise.all is
\* fulfilled and the loop goes on.
WorkerMessage(s, k, ok) ==
  /\ worker[s][k].st = "running"
  /\ worker[s][k].promise = "pending"
  /\ LET ws == [worker EXCEPT ![s][k].promise = "resolved"]
     IN /\ survivors' = [survivors EXCEPT ![s] = @ + ok]
        /\ IF cpc = "stageWait" /\ stage = s /\ AllResolved(ws, s)
           THEN AfterStage(ws, s)
           ELSE worker' = ws /\ UNCHANGED <<cpc, stage, cres, bar>>
  /\ crashed' = crashed
  /\ UNCHANGED <<procVars, pipeConfig, retryVars, monVars, poolVars, ffVars, utilVars>>

\* The worker in slot k of stage s ends: 'error', or 'exit' with a code.
\* 'error' and a non-zero code reject a pending promise, which rejects the
\* awaited Promise.all: executeStage throws and the finally block of
\* createProcessingPipeline runs.
WorkerEnds(s, k, how) ==
  /\ worker[s][k].st = "running"
  /\ LET rejects == how # "exit0" /\ worker[s][k].promise = "pending"
         ws == [worker EXCEPT ![s][k].st = "exited",
                              ![s][k].promise = IF rejects THEN "rejected" ELSE @]
     IN /\ worker' = ws
        /\ IF rejects /\ cpc = "stageWait" /\ stage = s
           THEN PipelineFinally(bar) /\ stage' = stage
           ELSE UNCHANGED <<cpc, stage, cres, bar>>
  /\ crashed' = (crashed \/ how # "exit0")
  /\ UNCHANGED survivors
  /\ UNCHANGED <<procVars, pipeConfig, retryVars, monVars, poolVars, ffVars, utilVars>>

PipeNext ==
  \/ CallProcess
  \/ \E ok \in BOOLEAN : InitializeSettles(ok)
  \/ ScanSettles
  \/ \E k \in Slots, how \in {"exit0", "exit1", "error"} : ValidationWorkerEnds(k, how)
  \/ CleanupSettles
  \/ \E p \in Platforms : ProcessForPlatform(p)
  \/ CallPipeline
  \/ \E s \in Stages, k \in Slots, ok \in {0, 1} : WorkerMessage(s, k, ok)
  \/ \E s \in Stages, k \in Slots, how \in {"exit0", "exit1", "error"} : WorkerEnds(s, k, how)

\* ------------------------------------------------------------------------
\* FFmpegProcessor.executeCommand / retryProcessing
\* ------------------------------------------------------------------------
FFEntries == {"executeCommand", "retryProcessing"}

\* no call of the processor has been made
NoCall ==
  [entry |-> "none", pc |-> "idle", stack |-> <<>>, engines |-> 0,
   log |-> <<>>, outcome |-> "none", error |-> "none"]

FFIdle == ffm = NoCall

FFInit == ffm \in {[NoCall EXCEPT !.entry = e] : e \in FFEntries}

\* a processor in which inputPaths is bound in every method
InputPathsBoundEverywhere(fn) == fn \in FFEntries

\* is the identifier inputPaths bound in the body of fn?  It is a parameter
\* of retryProcessing; executeCommand has the parameters command, platform
\* and outputPath, and reading it there throws a ReferenceError
InputPathsBound(fn) == fn = "retryProcessing"

ExecFrame == [fn |-> "executeCommand", i |-> 0]
Top(stk) == stk[Len(stk)]
Pop(stk) == SubSeq(stk, 1, Len(stk) - 1)

\* The frame on top of stk throws err.  A throw out of executeCommand, or
\* out of the try block of retryProcessing, reaches the catch block of the
\* retryProcessing frame below it: on its last iteration it rethrows,
\* otherwise it waits retry.delay.  A rejection of the retryProcessing called
\* from the catch block of executeCommand leaves executeCommand as well.
RECURSIVE Thrown(_, _, _)
Thrown(f, stk, err) ==
  IF stk = <<>>
  THEN [f EXCEPT !.pc = "settled", !.stack = <<>>, !.outcome = "Failed", !.error = err]
  ELSE IF Top(stk).fn = "retryProcessing"
  THEN IF Top(stk).i = retryAttempts - 1
       THEN Thrown([f EXCEPT !.log = Append(@, err)], Pop(stk), err)
       ELSE [f EXCEPT !.pc = "delay", !.stack = stk, !.log = Append(@, err)]
  ELSE Thrown(f, Pop(stk), err)

\* the head of the for loop of the retryProcessing frame on top of stk, with
\* its counter at i: the body starts, or the loop is left and the method
\* returns undefined to whoever awaits it
RetryLoopHead(f, stk, i) ==
  IF i < retryAttempts
  THEN [f EXCEPT !.pc = "check", !.stack = Append(stk, [fn |-> "retryProcessing", i |-> i])]
  ELSE [f EXCEPT !.pc = "settled", !.stack = <<>>, !.outcome = "Undefined"]

\* executeCommand(command, ...) or retryProcessing(inputPaths, ...) is called
CallProcessor ==
  /\ ffm.pc = "idle"
  /\ ffm.entry \in FFEntries
  /\ ffm' = IF ffm.entry = "executeCommand"
            THEN [ffm EXCEPT !.pc = "engine", !.stack = <<ExecFrame>>, !.engines = 1]
            ELSE RetryLoopHead(ffm, <<>>, 0)
  /\ UNCHANGED <<retryVars, monVars, poolVars, pipeVars, utilVars>>

\* checkSystemResources() settles in the try block of retryProcessing; when
\* it is fulfilled the command is built and executeCommand is called
checkSystemResources(ok) ==
  /\ ffm.pc = "check"
  /\ ffm' = IF ok
            THEN [ffm EXCEPT !.pc = "engine", !.stack = Append(@, ExecFrame),
                             !.engines = @ + 1]
            ELSE Thrown(ffm, ffm.stack, "resources")
  /\ UNCHANGED <<retryVars, monVars, poolVars, pipeVars, utilVars>>

\* the engine emits 'end': the promise resolves, and every caller returns
\* what it awaited
CommandEnd ==
  /\ ffm.pc = "engine"
  /\ ffm' = [ffm EXCEPT !.pc = "settled", !.stack = <<>>, !.outcome = "Succeeded"]
  /\ UNCHANGED <<retryVars, monVars, poolVars, pipeVars, utilVars>>

\* the engine emits 'error': the catch block of executeCommand calls
\* retryProcessing(inputPaths, ...) when retry.attempts > 0, else rethrows
CommandError ==
  /\ ffm.pc = "engine"
  /\ IF retryAttempts > 0
     THEN IF InputPathsBound("executeCommand")
          THEN /\ Len(ffm.stack) < MaxDepth
               /\ ffm' = RetryLoopHead(ffm, ffm.stack, 0)
          ELSE ffm' = Thrown(ffm, Pop(ffm.stack), "ReferenceError")
     ELSE ffm' = Thrown(ffm, Pop(ffm.stack), "engine")
  /\ UNCHANGED <<retryVars, monVars, poolVars, pipeVars, utilVars>>

\* setTimeout(resolve, config.processing.retry.delay) fires; i++
RetryDelayElapsed ==
  /\ ffm.pc = "delay"
  /\ ffm' = RetryLoopHead(ffm, Pop(ffm.stack), Top(ffm.stack).i + 1)
  /\ UNCHANGED <<retryVars, monVars, poolVars, pipeVars, utilVars>>

FFNext ==
  \/ CallProcessor
  \/ \E ok \in BOOLEAN : checkSystemResources(ok)
  \/ CommandEnd
  \/ CommandError
  \/ RetryDelayElapsed

\* ------------------------------------------------------------------------
\* validationWorker.js
\* ------------------------------------------------------------------------
\* the worker before its module is loaded by anybody
NoWorkerRun ==
  [delivery |-> "none", n |-> 0, bad |-> {}, initOk |-> TRUE,
   pc |-> "none", pos |-> 0, posted |-> <<>>]

\* new Worker('./src/core/validationWorker.js', ...) is about to be called
\* for a slice of the files 1 .. n; those in bad fail a check of
\* validateVideoFile, and initOk tells whether initialize() will succeed.
WorkerInit ==
  vw \in UNION {{[NoWorkerRun EXCEPT !.delivery = d, !.n = n, !.bad = b, !.initOk = ok,
                                      !.pc = "created"] :
                   d \in {"workerData", "message"}, b \in SUBSET (1 .. n), ok \in BOOLEAN} :
                n \in 0 .. MaxSlice}

\* does the listener parentPort.on('message', ...) run for a slice handed
\* over this way?  The module never reads workerData
HandlerRuns(delivery) == delivery = "message"

\* the position of the for loop after the file at pos
LoopAfter(w, pos) ==
  IF pos + 1 > w.n
  THEN [w EXCEPT !.pc = "done", !.pos = pos + 1]
  ELSE [w EXCEPT !.pc = "validating", !.pos = pos + 1]

\* the worker thread evaluates the module: the 'message' listener is
\* installed and the thread waits for messages
WorkerStarts ==
  /\ vw.pc = "created"
  /\ vw' = [vw EXCEPT !.pc = "listening"]
  /\ UNCHANGED vif
  /\ UNCHANGED <<retryVars, monVars, poolVars, pipeVars, ffVars>>

\* a message with the slice arrives and the listener starts: initialize()
MessageArrives ==
  /\ vw.pc = "listening"
  /\ HandlerRuns(vw.delivery)
  /\ vw' = [vw EXCEPT !.pc = "initialize"]
  /\ UNCHANGED vif
  /\ UNCHANGED <<retryVars, monVars, poolVars, pipeVars, ffVars>>

\* localFileUtils.initialize() settles: the loop starts, or the outer catch
\* posts one error message and the handler ends
WorkerInitializeSettles ==
  /\ vw.pc = "initialize"
  /\ vw' = IF vw.initOk
           THEN LoopAfter(vw, 0)
           ELSE [vw EXCEPT !.pc = "done",
                           !.posted = Append(@, [kind |-> "error", file |-> 0])]
  /\ UNCHANGED vif
  /\ UNCHANGED <<retryVars, monVars, poolVars, pipeVars, ffVars>>

\* validateVideoFile(filePath) settles for the file the loop is at
WorkerFileValidated ==
  /\ vw.pc = "validating"
  /\ vw' = LoopAfter([vw EXCEPT !.posted = Append(@, [kind |-> IF vw.pos \in vw.bad
                                                                  THEN "invalid"
                                                                  ELSE "valid",
                                                        file |-> vw.pos])], vw.pos)
  /\ UNCHANGED vif
  /\ UNCHANGED <<retryVars, monVars, poolVars, pipeVars, ffVars>>

\* ------------------------------------------------------------------------
\* FileUtils.validateInputFiles
\* ------------------------------------------------------------------------
\* no call of validateInputFiles has been made
NoValidation ==
  [n |-> 0, pc |-> "none", file |-> [f \in 1 .. MaxScan |-> "none"],
   valid |-> <<>>, invalid |-> <<>>]

\* the call is about to be made on a directory in which the scan finds the
\* files 1 .. n
ValidationInit == vif \in {[NoValidation EXCEPT !.n = n, !.pc = "idle"] : n \in 0 .. MaxScan}

UtilIdle == vw = NoWorkerRun /\ vif = NoValidation

\* validateInputFiles(): scanInputDirectory() settles, files.map starts one
\* validation per file, and Promise.all of them is awaited
CallValidateInputFiles ==
  /\ vif.pc = "idle"
  /\ vif' = [vif EXCEPT !.pc = "all",
                        !.file = [f \in 1 .. MaxScan |-> IF f <= vif.n THEN "pending"
                                                         ELSE "none"]]
  /\ UNCHANGED vw
  /\ UNCHANGED <<retryVars, monVars, poolVars, pipeVars, ffVars>>

\* a callback that lists a file as valid before its validation has settled
PushEarly(v, f, ok) ==
  IF ok
  THEN [v EXCEPT !.valid = Append(@, f)]
  ELSE [v EXCEPT !.valid = Append(@, f), !.invalid = Append(@, f)]

\* the callback of files.map for the file f once validateVideoFile has
\* settled: push to valid from the try block, or to invalid from the catch
Push(v, f, ok) ==
  IF ok
  THEN [v EXCEPT !.valid = Append(@, f)]
  ELSE [v EXCEPT !.invalid = Append(@, f)]

\* validateVideoFile(f) settles, in any order among the pending files
FileValidated(f, ok) ==
  /\ vif.pc = "all"
  /\ vif.file[f] = "pending"
  /\ vif' = [Push(vif, f, ok) EXCEPT !.file[f] = IF ok THEN "valid" ELSE "invalid"]
  /\ UNCHANGED vw
  /\ UNCHANGED <<retryVars, monVars, poolVars, pipeVars, ffVars>>

\* every callback has settled (none rejects): Promise.all is fulfilled and
\* validationResults is returned
ValidationReturns ==
  /\ vif.pc = "all"
  /\ \A f \in 1 .. MaxScan : vif.file[f] # "pending"
  /\ vif' = [vif EXCEPT !.pc = "returned"]
  /\ UNCHANGED vw
  /\ UNCHANGED <<retryVars, monVars, poolVars, pipeVars, ffVars>>

\* ------------------------------------------------------------------------
\* Specification of the retry executor, the registries and the monitor
\* ------------------------------------------------------------------------
Init == RetryInit /\ MonitorInit /\ PoolIdle /\ PipeIdle /\ FFIdle /\ UtilIdle

\* abortAllExports() / abortAllProcessing() called on the exported singleton
CallAbortAllExports == abortAllExports /\ NoPollStep

CallAbortAllProcessing == abortAllProcessing /\ NoPollStep

Next ==
  \/ \E t \in Tasks : Start(t)
  \/ \E t \in Tasks : EngineEnd(t)
  \/ \E t \in Tasks : EngineError(t)
  \/ \E t \in Tasks : DelayElapsed(t)
  \/ CallAbortAllExports
  \/ CallAbortAllProcessing
  \/ \E c \in {50}, m \in MemFreeSamples, d \in DiskUsedSamples : Poll(c, m, d)

Spec == Init /\ [][Next]_vars

\* The three retry loops alone: executeProcessing, executeWithRetry and
\* withFileRetry, each with one task
InitRetry ==
  /\ retryAttempts \in 0 .. MaxAttempts
  /\ task = [t \in RetryTasks |-> NewTask]
  /\ activeClip = {}
  /\ activeExport = {}
  /\ MonitorInit /\ PoolIdle /\ PipeIdle /\ FFIdle /\ UtilIdle

SpecRetry ==
  /\ InitRetry
  /\ [][\/ \E t \in RetryTasks : Start(t)
        \/ \E t \in RetryTasks : EngineEnd(t)
        \/ \E t \in RetryTasks : EngineError(t)
        \/ \E t \in RetryTasks : DelayElapsed(t)
        \/ CallAbortAllExports
        \/ CallAbortAllProcessing]_vars

\* The two executors of engine commands, with a start of the command that
\* may throw
SpecRegistry ==
  /\ Init
  /\ [][\/ \E t \in Tasks : Start(t)
        \/ \E t \in Tasks : CommandThrows(t)
        \/ \E t \in Tasks : EngineEnd(t)
        \/ \E t \in Tasks : EngineError(t)
        \/ \E t \in Tasks : DelayElapsed(t)
        \/ CallAbortAllExports
        \/ CallAbortAllProcessing]_vars

\* ------------------------------------------------------------------------
\* Specification of FFmpegProcessor's retry
\* ------------------------------------------------------------------------
InitFF ==
  /\ retryAttempts \in 0 .. MaxAttempts
  /\ task = [t \in Tasks |-> NewTask]
  /\ activeClip = {}
  /\ activeExport = {}
  /\ MonitorIdle /\ PoolIdle /\ PipeIdle /\ FFInit /\ UtilIdle

\* every step of the processor that can be taken is taken in the end
SpecFFLive == InitFF /\ [][FFNext]_vars /\ WF_vars(FFNext)

\* ------------------------------------------------------------------------
\* Specifications of the validation worker and of validateInputFiles
\* ------------------------------------------------------------------------
InitWorker ==
  /\ RetryIdle /\ MonitorIdle /\ PoolIdle /\ PipeIdle /\ FFIdle
  /\ WorkerInit /\ vif = NoValidation

SpecWorker ==
  /\ InitWorker
  /\ [][\/ WorkerStarts
        \/ MessageArrives
        \/ WorkerInitializeSettles
        \/ WorkerFileValidated]_vars

InitValidation ==
  /\ RetryIdle /\ MonitorIdle /\ PoolIdle /\ PipeIdle /\ FFIdle
  /\ vw = NoWorkerRun /\ ValidationInit

SpecValidation ==
  /\ InitValidation
  /\ [][\/ CallValidateInputFiles
        \/ \E f \in 1 .. MaxScan, ok \in BOOLEAN : FileValidated(f, ok)
        \/ ValidationReturns]_vars

\* ------------------------------------------------------------------------
\* Specification of the resource monitor
\* ------------------------------------------------------------------------
InitMonitor == RetryIdle /\ MonitorInit /\ PoolIdle /\ PipeIdle /\ FFIdle /\ UtilIdle

SpecMonitor ==
  /\ InitMonitor
  /\ [][\E c \in CpuSamples, m \in MemFreeSamples, d \in DiskUsedSamples : MonitorPoll(c, m, d)]_vars

InitLifecycle == RetryIdle /\ LifecycleInit /\ PoolIdle /\ PipeIdle /\ FFIdle /\ UtilIdle

SpecLifecycle ==
  /\ InitLifecycle
  /\ [][\/ CallStart
        \/ CallStop
        \/ TimerFires
        \/ \E c \in CpuSamples, m \in MemFreeSamples, d \in DiskUsedSamples :
             UpdateCompletes(c, m, d)]_vars

\* ------------------------------------------------------------------------
\* Specification of the stage executors
\* ------------------------------------------------------------------------
InitPool == RetryIdle /\ MonitorInit /\ PoolInit /\ PipeIdle /\ FFIdle /\ UtilIdle

SpecPool == InitPool /\ [][PoolNext]_vars

\* The executors with every call made and every started task settling in
\* the end
SpecPoolLive ==
  /\ InitPool
  /\ [][PoolNext]_vars
  /\ WF_vars(CallBatch)
  /\ \A i \in Items : WF_vars(TaskSettles(i, "fulfilled") \/ TaskSettles(i, "rejected"))

\* The executors with the time followed
InitTimed == RetryIdle /\ MonitorInit /\ TimedInit /\ PipeIdle /\ FFIdle /\ UtilIdle

SpecTimed ==
  /\ InitTimed
  /\ [][\/ TimedCall
        \/ \E i \in 1 .. MaxTimedItems : TimedSettle(i)
        \/ Tick]_vars

\* ------------------------------------------------------------------------
\* Specification of PipelineManager
\* ------------------------------------------------------------------------
InitPipe == RetryIdle /\ MonitorIdle /\ PoolIdle /\ PipeInit /\ FFIdle /\ UtilIdle

SpecPipe == InitPipe /\ [][PipeNext]_vars

\* PipelineManager with the event loop running: a step that can be taken is
\* taken in the end
SpecPipeLive == InitPipe /\ [][PipeNext]_vars /\ WF_vars(PipeNext)

\* ------------------------------------------------------------------------
\* Properties of the retry executor and of the registries (Spec)
\* ------------------------------------------------------------------------
\* C2: for one task, the engine is started at most
\* config.processing.retry.attempts times, and whenever the engine runs the
\* attempt counter is at most config.processing.retry.attempts.
C2_AttemptsBounded ==
  \A t \in Tasks :
    /\ task[t].runs <= retryAttempts
    /\ task[t].pc = "running" => task[t].attempt <= retryAttempts

\* a task that used every attempt it is allowed, with at least two allowed
C2_Witness ==
  \E t \in Tasks :
    retryAttempts >= 2 /\ task[t].runs = retryAttempts /\ task[t].pc = "settled"

C4_FailsOnceWithLastError ==
  \A t \in Tasks :
    (retryAttempts >= 1 /\ Len(task[t].log) = retryAttempts /\ (\A i \in 1 .. Len(task[t].log) : task[t].log[i] # "ok")) =>
      /\ task[t].pc = "settled"
      /\ task[t].outcome = "Failed"
      /\ task[t].settled = 1
      /\ task[t].error = retryAttempts
      /\ task[t].runs = retryAttempts

\* a task that failed on each of its three attempts
C4_Witness ==
  \E t \in Tasks :
    retryAttempts = 3 /\ task[t].log = <<"fail", "fail", "fail">> /\ task[t].outcome = "Failed"

\* C6: right after a poll that observed disk usage at or above the critical
\* threshold, every handle that was in the exporter's registry has been sent
\* the termination signal and the registry is empty.
C6_CriticalDiskAbortsAll ==
  (justPolled.done /\ justPolled.disk >= DiskCritical) =>
    /\ activeExport = {}
    /\ \A t \in justPolled.registered : task[t].sigterm

\* C7: a task whose handle was terminated by abortAll is not retried (the
\* engine is not started again, the handle is not registered again) and
\* does not settle as Failed.
C7_AbortedNotRetried ==
  \A t \in Tasks :
    task[t].abortedAtRun > 0 =>
      /\ task[t].runs = task[t].abortedAtRun
      /\ t \notin activeClip \cup activeExport
      /\ task[t].outcome # "Failed"

\* ------------------------------------------------------------------------
\* Properties of the stage executors (SpecPool)
\* ------------------------------------------------------------------------
Running == {i \in Items : item[i] = "running"}

\* C1: during batchProcess and batchConcatenate at most
\* config.processing.concurrency.clipProcessing tasks are started and not
\* yet settled.
C1_RunningWithinLimit ==
  kind \in {"batchProcess", "batchConcatenate"} =>
    Cardinality(Running) <= concurrency.clipProcessing

\* C5: a task that ended Failed is collected: the executor does not throw,
\* and no item is left unadmitted because of it.
C5_FailureCollected ==
  (\E i \in Items : item[i] = "rejected") =>
    /\ bpc # "thrown"
    /\ (bpc = "returned" => \A i \in 1 .. nItems : item[i] # "pending")

\* C11: with memory usage above the load threshold, batchProcess starts a
\* clip only after it has paused at least once.
C11_NoAdmissionUnderLoad ==
  (kind = "batchProcess" /\ isSystemUnderLoad(stats).memory) =>
    (started # <<>> => cooldowns >= 1)

C18_ResultAccountsForAll == bpc = "returned" => Cardinality(awaited) = nItems

\* C19: the tasks are started in the order of the input list: the a-th task
\* started is the one of the a-th item.
C19_AdmissionFIFO == \A a \in 1 .. Len(started) : started[a] = a

\* batchExport has started three exports, the second having settled while
\* the first still runs
C19_Witness ==
  /\ kind = "batchExport"
  /\ Len(started) = 3
  /\ item[1] = "running"
  /\ item[2] = "fulfilled"

\* ------------------------------------------------------------------------
\* Properties of the resource monitor (Spec)
\* ------------------------------------------------------------------------

\* C20: after a poll, the cpu flag of isSystemUnderLoad is set exactly when
\* the moving average is above 70, the memory flag exactly when the memory
\* in use is above 80 percent, and the disk flag exactly when the disk space
\* in use, as the poll found it, is above 90 percent.
C20_LoadFlags ==
  justPolled.done =>
    /\ isSystemUnderLoad(stats).cpu = (stats.cpu.average.sum > LoadCpu * stats.cpu.average.n)
    /\ isSystemUnderLoad(stats).memory =
         ((stats.memory.used * 100) \div stats.memory.total > LoadMemory)
    /\ isSystemUnderLoad(stats).disk = ((justPolled.disk * 100) \div DiskTotal > LoadDisk)

\* ------------------------------------------------------------------------
\* Properties of PipelineManager (SpecPipe)
\* ------------------------------------------------------------------------

\* C8: while a worker of stage N is still running, no worker of stage N+1
\* has been created.
C8_StageBarrier ==
  \A s \in 1 .. NumStages - 1 : \A k \in Slots, k2 \in Slots :
    worker[s][k].st = "running" => worker[s + 1][k2].st = "none"

\* C9: in a run of process(), cleanupTempFiles is never called and TEMP_DIR
\* never removed before the try block has been left; neither happens more
\* than once; and once process() has returned, by whichever path, the call
\* was made exactly once and, the cleanup flag being set, TEMP_DIR was
\* removed exactly once.
C9_CleanupExactlyOnce ==
  entry = "process" =>
    /\ cleanupCalls <= 1
    /\ removals <= 1
    /\ ppc \in {"idle", "initialize", "scan", "validating"} =>
         cleanupCalls = 0 /\ removals = 0
    /\ ppc = "cleanup" => cleanupCalls = 1 /\ removals = 0
    /\ ppc = "done" => cleanupCalls = 1 /\ (cleanupFlag => removals = 1)

\* process() has returned after a validation worker failed, and TEMP_DIR has
\* been removed
C9_Witness ==
  /\ entry = "process"
  /\ ppc = "done"
  /\ \E k \in Slots : vworker[k] = "crashed"
  /\ cleanupCalls = 1
  /\ removals = 1

\* C10: a stage after stage s is started only if stage s reported at least
\* one surviving item.
C10_NoStageAfterEmptyStage ==
  \A s \in 1 .. NumStages - 1 : stage > s => survivors[s] > 0

\* the sum of the weights of the stages 1 .. s
RECURSIVE CumulativeWeight(_)
CumulativeWeight(s) == IF s = 0 THEN 0 ELSE StageWeight[s] + CumulativeWeight(s - 1)

\* C13: when stage s has been completed and the next stage is under way, the
\* bar of the pipeline shows the cumulative weight of the stages 1 .. s
\* (25, 45, 60, 80).
C13_ProgressMilestones ==
  \A s \in 1 .. NumStages - 1 :
    (cpc = "stageWait" /\ stage = s + 1) => bar.pipe = CumulativeWeight(s)

\* C14: the caller of process() prints the success message only for a run
\* whose try block was not left by an error.
C14_FailureDistinguished == reported = "success" => exitPath # "throw"

\* C15: a run of process() that found no valid item has started no stage,
\* has removed TEMP_DIR (the cleanup flag being set), and is not reported as
\* a success.
C15_NoValidItemFails ==
  (entry = "process" /\ ppc = "done" /\ exitPath = "return") =>
    /\ stage = 0
    /\ cpc = "idle"
    /\ cleanupCalls = 1
    /\ (cleanupFlag => removals = 1)
    /\ reported # "success"

\* C16: once process() awaits the validation and every validation worker has
\* exited with code 0, the first stage is started in the end.
C16_ValidationCompletes ==
  (entry = "process" /\ ppc = "validating" /\ \A k \in 1 .. cores : vworker[k] = "exited") ~> (stage >= 1)

\* C17: once a stage worker has crashed, no further stage is started.
C17_CrashIsFatal == [][crashed => stage' = stage]_vars


\* ------------------------------------------------------------------------
\* Properties of the resource monitor
\* ------------------------------------------------------------------------
\* C21: after any number of polls the CPU history holds at most 10 samples,
\* they are the most recent samples in arrival order, and stats.cpu.average
\* is the mean of exactly the samples in the history.
C21_HistoryWindow ==
  polls >= 1 =>
    /\ Len(stats.cpu.history) <= HistoryLimit
    /\ stats.cpu.history = SubSeq(arrived, Len(arrived) - Min(HistoryLimit, Len(arrived)) + 1, Len(arrived))
    /\ stats.cpu.average.n = Len(stats.cpu.history)
    /\ stats.cpu.average.sum = SumSeq(stats.cpu.history)

\* a poll that arrived with the window already full
C21_Witness ==
  /\ Len(arrived) > HistoryLimit
  /\ Len(stats.cpu.history) = HistoryLimit
  /\ stats.cpu.history # SubSeq(arrived, 1, HistoryLimit)

\* does the poll just completed carry an event of this type?
Emitted(type) == \E i \in 1 .. Len(warnings) : warnings[i].type = type

\* C22: on each completed poll a warning is emitted for a resource exactly
\* when its value exceeds its alert threshold: cpu on the moving average,
\* memory and disk on the usage percentage of the poll.
C22_EventIffOverThreshold ==
  justPolled.done =>
    /\ Emitted("cpu") <=> AverageGT(stats.cpu.average, CpuAlert)
    /\ Emitted("memory") <=> (stats.memory.used * 100 > MemoryAlert * stats.memory.total)
    /\ Emitted("disk") <=> (justPolled.disk * 100 > DiskAlert * DiskTotal)


C24_StoppedOnceAtShutdown ==
  (entry = "process" /\ ppc = "done") =>
    /\ timer.starts = 1
    /\ timer.stops = 1
    /\ ~timer.interval


\* ------------------------------------------------------------------------
\* Further properties of the retry executors
\* ------------------------------------------------------------------------
\* C27: each attempt is a fresh invocation: when attempt k terminates only
\* the handlers installed for attempt k take effect, so after any number of
\* terminated attempts the per-attempt cleanup has run exactly once per
\* terminated attempt.
C27_OneCleanupPerAttempt ==
  \A t \in ClipTasks : task[t].cleanups = Len(task[t].log)


\* ------------------------------------------------------------------------
\* Further properties of the stage executors
\* ------------------------------------------------------------------------
\* C29: batchProcess consults the admission gate before every admission of a
\* clip, admissions below capacity included: at any moment the gate has been
\* consulted at least as many times as clips have been started.
C29_GateBeforeEveryAdmission ==
  kind = "batchProcess" => gateChecks >= Len(started)


\* C25: with stage concurrency 2 and five clips of the same duration d, none
\* failing, batchProcess completes after exactly ceil(5/2) = 3 rounds of
\* duration d.
C25_ThreeRounds ==
  (kind = "batchProcess" /\ concurrency.clipProcessing = 2 /\ nItems = 5
     /\ bpc = "returned") => clock.now = 3


\* C28: consecutive attempts of one task are separated by one fixed delay: a
\* task that has made n attempts has waited exactly n-1 delays, a delay is
\* only ever waited when a further attempt follows it, and a settled task
\* waits no more (executeProcessing, executeWithRetry, withFileRetry).
C28_OneDelayBetweenAttempts ==
  \A t \in RetryTasks :
    /\ task[t].runs >= 1 => task[t].delays = task[t].runs - 1
    /\ task[t].runs = 0 => task[t].delays = 0
    /\ task[t].pc = "delay" => task[t].attempt < retryAttempts

\* a file operation that failed three times: settled after two delays
C28_Witness ==
  \E t \in FileTasks :
    /\ task[t].pc = "settled"
    /\ task[t].outcome = "Failed"
    /\ task[t].runs = 3
    /\ task[t].delays = 2


\* ------------------------------------------------------------------------
\* Further properties of PipelineManager
\* ------------------------------------------------------------------------
\* do the slices, a function from the workers to sets of files, partition
\* 1 .. n?
Partitions(n, slices) ==
  /\ \A j \in 1 .. n : Cardinality({k \in DOMAIN slices : j \in slices[k]}) = 1
  /\ \A k \in DOMAIN slices : slices[k] \subseteq 1 .. n

\* C30: for every file list and every core count >= 1 the slices handed to
\* the workers by parallelValidation and by executeStage partition the list:
\* every file is in the slice of exactly one worker.
C30_SlicesPartition ==
  /\ (entry = "process" /\ \E k \in Slots : vworker[k] # "none") =>
       Partitions(nFiles, [k \in {w \in Slots : vworker[w] # "none"} |->
                             ValidationSlice(nFiles, cores, k)])
  /\ (entry = "createProcessingPipeline" /\ stage >= 1) =>
       Partitions(nFiles, [k \in {w \in Slots : worker[1][w] # NoWorker} |->
                             StageSlice(nFiles, cores, k)])

\* three files on two cores: both validation workers exist
C30_Witness ==
  /\ entry = "process"
  /\ nFiles = 3
  /\ cores = 2
  /\ \A k \in 1 .. 2 : vworker[k] = "alive"


C32_RegistryAccurate ==
  \A t \in Tasks :
    /\ t \in activeClip \cup activeExport => task[t].pc = "running"
    /\ task[t].pc = "settled" => t \notin activeClip \cup activeExport

\* C33: abortAllExports, called by the critical-disk listener or directly,
\* signals the registered exports and clears the exporter's set, and leaves
\* the set and the commands of ClipProcessor as they were.
C33_AbortExportsFrame ==
  [][(CallAbortAllExports \/ justPolled'.aborted) =>
       /\ activeExport' = {}
       /\ \A t \in activeExport : task'[t].sigterm
       /\ activeClip' = activeClip
       /\ \A t \in ClipTasks : task'[t] = task[t]]_vars

\* an export was sent SIGTERM by abortAllExports while a clip command stays
\* registered, running and unsignalled
C33_Witness ==
  \E e \in ExportTasks, c \in ClipTasks :
    /\ task[e].sigterm
    /\ task[e].pc = "running"
    /\ activeExport = {}
    /\ c \in activeClip
    /\ task[c].pc = "running"
    /\ ~task[c].sigterm

\* C34: the heartbeat timer of process() is cancelled on every exit path:
\* once process() has returned no heartbeat timer is active.
C34_HeartbeatCancelled ==
  (entry = "process" /\ ppc = "done") => ~heartbeat

C40_DefiniteOutcome ==
  \A t \in RetryTasks :
    task[t].pc = "settled" => (task[t].runs >= 1 \/ task[t].outcome = "Failed")


\* C35: after stop() has returned the statistics are no longer changed and
\* no warning is emitted, even when an updateStats() begun before stop() has
\* not completed yet.
C35_QuietAfterStop ==
  [][(timer.stops >= 1 /\ ~timer.interval /\ ~timer'.interval) =>
       (stats' = stats /\ warnings' = <<>>)]_vars

\* C36: for any sequence of start() and stop() calls at most one polling
\* timer is active: a timer exists exactly when this.interval is set,
\* start() on a started monitor and stop() on a stopped one change nothing,
\* and start() after stop() creates exactly one timer.
C36_AtMostOneTimer ==
  /\ [](timer.starts - timer.stops \in {0, 1})
  /\ [](timer.interval <=> timer.starts - timer.stops = 1)
  /\ [][(CallStart /\ timer.interval) => timer' = timer]_vars
  /\ [][(CallStop /\ ~timer.interval) => timer' = timer]_vars
  /\ [][(CallStart /\ ~timer.interval) =>
          (timer'.interval /\ timer'.starts = timer.starts + 1)]_vars

\* a monitor that was started, stopped and started again holds one timer
C36_Witness ==
  /\ timer.starts = 2
  /\ timer.stops = 1
  /\ timer.interval


\* ------------------------------------------------------------------------
\* Properties of the validation worker and of validateInputFiles
\* ------------------------------------------------------------------------
\* C31: a validation error is per-item and recoverable: once the worker has
\* nothing left to do, exactly one outcome message has been posted for every
\* file of its slice, invalid for a file that fails validation and valid for
\* every other file, whatever failed before it.
C31_OneOutcomePerFile ==
  LET PostedAbout(f) == {i \in 1 .. Len(vw.posted) : vw.posted[i].file = f}
  IN (vw.pc = "done" \/ (vw.pc = "listening" /\ ~HandlerRuns(vw.delivery))) =>
       \A f \in 1 .. vw.n :
         /\ Cardinality(PostedAbout(f)) = 1
         /\ \A i \in PostedAbout(f) :
              vw.posted[i].kind = IF f \in vw.bad THEN "invalid" ELSE "valid"

\* the elements of a sequence
Range(seq) == {seq[i] : i \in 1 .. Len(seq)}

\* C39: validateInputFiles classifies every scanned file exactly once: at
\* any moment no file is listed twice or in both lists, and in the returned
\* result valid and invalid together hold exactly the scanned files.
C39_ClassifiedExactlyOnce ==
  /\ Cardinality(Range(vif.valid)) = Len(vif.valid)
  /\ Cardinality(Range(vif.invalid)) = Len(vif.invalid)
  /\ Range(vif.valid) \cap Range(vif.invalid) = {}
  /\ vif.pc = "returned" => Range(vif.valid) \cup Range(vif.invalid) = 1 .. vif.n

\* three files validated out of order, two valid and one invalid
C39_Witness ==
  /\ vif.pc = "returned"
  /\ vif.n = 3
  /\ vif.valid = <<3, 1>>
  /\ vif.invalid = <<2>>

\* ------------------------------------------------------------------------
\* Properties of PlatformExporter.batchExport (SpecPool)
\* ------------------------------------------------------------------------

\* the identifiers platformExport.js imports
PlatformExportImports == {"ffmpeg", "config", "Progress", "FileUtils", "checkSystemResources"}

\* The commands registered in activeProcesses for the exportFinalVideo calls
\* begun, as pairs of call and platform.  exportForPlatform calls
\* getOutputPath first; when that throws, the call rejects before a command
\* is created, and executeWithRetry, the only place a command is added, is
\* not reached.  Otherwise a command may stay registered from the start of
\* its call on.
ExportHandles ==
  IF "path" \notin PlatformExportImports THEN {}
  ELSE {c \in Items \X Platforms : item[c[1]] # "pending"}

====
